---- MODULE Spec2Model ----
\* A model of three parts of starknet-rs:
\*   - the affine curve arithmetic of starknet-crypto/src/ec_point.rs,
\*   - the structural decoder DeployedClass::deserialize_from_json_deployed_class
\*     of starknet-providers/src/sequencer/models/contract.rs,
\*   - the nonce discipline of two concurrent execute(calls).send() invocations
\*     (starknet-accounts), whose code is outside src/ and is modelled from
\*     the specification.
\* A Rust panic (`unwrap()` on None / Err) is an outcome of its own, distinct
\* from a returned value and from a returned Err.
EXTENDS Integers, Sequences, FiniteSets

VARIABLES
    op,          \* the operation that was called ("none" before any call)
    outcome,     \* "none" | "ok" (value returned) | "err" (Err returned) | "panic"
    self,        \* &self of the call
    other,       \* the second point operand
    xin,         \* the argument of from_x
    bits,        \* the bit slice of multiply (index 1 is bits[0])
    bits2,       \* the second scalar of the homomorphism test
    result,      \* the returned point (identity() when nothing was returned)
    result2,     \* the right-hand side of the homomorphism test
    pc,          \* position inside multiply's loop
    product,     \* multiply's accumulator
    i,           \* number of bits still to be consumed by multiply's loop
    nDouble,     \* calls of double made by the running multiply
    nAdd,        \* calls of add made by the running multiply
    json,        \* the input of the class decoder
    decoded,     \* what the class decoder did with it
    providerNonce, \* the account's nonce as the provider holds it
    inv          \* the two execute(calls).send() invocations

curveVars == <<op, outcome, self, other, xin, bits, bits2, result, result2,
               pc, product, i, nDouble, nAdd>>
classVars == <<json, decoded>>
accountVars == <<providerNonce, inv>>
vars == <<curveVars, classVars, accountVars>>

-----------------------------------------------------------------------------
\* Bounds of the model.

\* Longest bit slice handed to multiply.
MaxLen == 5

\* Largest scalar of the homomorphism test.
MaxScalar == 6

\* Largest nonce the account has at the provider before the invocations start.
MaxNonce == 3

-----------------------------------------------------------------------------
\* FieldElement: arithmetic modulo a fixed prime. The crate's field is
\* outside src/; the model uses a small prime field so that every element and
\* every curve point can be enumerated. PRIME, ALPHA and BETA are chosen so
\* that, like the Stark curve, the curve y^2 = x^3 + ALPHA*x + BETA has
\* ALPHA = 1 and a group of odd prime order (11 points with the identity),
\* hence no point with y = 0.
PRIME == 7

ALPHA == 1

BETA == 6

FieldElement == 0 .. (PRIME - 1)

ZERO == 0

ONE == 1

FAdd(a, b) == (a + b) % PRIME

FSub(a, b) == (a + PRIME - b) % PRIME

FMul(a, b) == (a * b) % PRIME

FNeg(a) == (PRIME - a) % PRIME

\* Option<FieldElement>
None == [some |-> FALSE, v |-> 0]

Some(a) == [some |-> TRUE, v |-> a]

\* FieldElement::invert: None for zero, the multiplicative inverse otherwise.
invert(a) ==
    IF a = ZERO THEN None
    ELSE Some(CHOOSE b \in FieldElement : FMul(a, b) = ONE)

IsResidue(a) == \E r \in FieldElement : FMul(r, r) = a

\* FieldElement::sqrt: None for a non-residue, the canonical (smaller) root
\* otherwise.
sqrt(a) ==
    IF ~IsResidue(a) THEN None
    ELSE Some(CHOOSE r \in FieldElement :
                /\ FMul(r, r) = a
                /\ \A s \in FieldElement : FMul(s, s) = a => r <= s)

-----------------------------------------------------------------------------
\* AffinePoint and the results of calls.

AffinePoint(px, py, inf) == [x |-> px, y |-> py, infinity |-> inf]

identity == AffinePoint(ZERO, ZERO, TRUE)

\* x^3 + ALPHA*x + BETA
CurveRhs(px) == FAdd(FAdd(FMul(FMul(px, px), px), FMul(ALPHA, px)), BETA)

OnCurve(p) == ~p.infinity /\ FMul(p.y, p.y) = CurveRhs(p.x)

\* The values the program's points take: the points of the curve and
\* identity().
CurvePoints ==
    {p \in [x : FieldElement, y : FieldElement, infinity : {FALSE}] : OnCurve(p)}

Points == CurvePoints \cup {identity}

\* A call either returns a point or panics.
Ret(p) == [panic |-> FALSE, val |-> p]

Panic == [panic |-> TRUE, val |-> identity]

-----------------------------------------------------------------------------
\* The operations of AffinePoint.

from_x(px) ==
    LET y_squared == CurveRhs(px)
        root == sqrt(y_squared)
    IN  IF ~root.some THEN Panic
        ELSE Ret(AffinePoint(px, root.v, FALSE))

double(p) ==
    IF p.infinity THEN Ret(p)
    ELSE
        LET two == FAdd(ONE, ONE)
            three == FAdd(two, ONE)
            dividend == FAdd(FMul(three, FMul(p.x, p.x)), ONE)
            divisor_inv == invert(FMul(two, p.y))
        IN  IF ~divisor_inv.some THEN Panic
            ELSE
                LET lambda == FMul(dividend, divisor_inv.v)
                    result_x == FSub(FSub(FMul(lambda, lambda), p.x), p.x)
                    result_y == FSub(FMul(lambda, FSub(p.x, result_x)), p.y)
                IN  Ret(AffinePoint(result_x, result_y, FALSE))

\* add with its first guard returning the wrong operand.
add_returns_self(p, q) ==
    IF p.infinity THEN Ret(p)
    ELSE IF q.infinity THEN Ret(p)
    ELSE
        LET dividend == FSub(q.y, p.y)
            divisor_inv == invert(FSub(q.x, p.x))
        IN  IF ~divisor_inv.some THEN Panic
            ELSE
                LET lambda == FMul(dividend, divisor_inv.v)
                    result_x == FSub(FSub(FMul(lambda, lambda), p.x), q.x)
                    result_y == FSub(FMul(lambda, FSub(p.x, result_x)), p.y)
                IN  Ret(AffinePoint(result_x, result_y, FALSE))

add(p, q) ==
    IF p.infinity THEN Ret(q)
    ELSE IF q.infinity THEN Ret(p)
    ELSE
        LET dividend == FSub(q.y, p.y)
            divisor_inv == invert(FSub(q.x, p.x))
        IN  IF ~divisor_inv.some THEN Panic
            ELSE
                LET lambda == FMul(dividend, divisor_inv.v)
                    result_x == FSub(FSub(FMul(lambda, lambda), p.x), q.x)
                    result_y == FSub(FMul(lambda, FSub(p.x, result_x)), p.y)
                IN  Ret(AffinePoint(result_x, result_y, FALSE))

\* The operand subtract hands to add.
Negated(q) == AffinePoint(q.x, FNeg(q.y), q.infinity)

subtract(p, q) == add(p, Negated(q))

\* One iteration of multiply's loop on accumulator acc and bit b.
LoopBody(acc, p, b) ==
    LET d == double(acc)
    IN  IF d.panic THEN Panic
        ELSE IF b THEN add(d.val, p)
        ELSE d

\* multiply's loop with n bits (bits[n-1] down to bits[0]) still to consume.
RECURSIVE MultiplyFrom(_, _, _, _)
MultiplyFrom(acc, p, bs, n) ==
    IF n = 0 THEN Ret(acc)
    ELSE
        LET r == LoopBody(acc, p, bs[n])
        IN  IF r.panic THEN Panic
            ELSE MultiplyFrom(r.val, p, bs, n - 1)

multiply(p, bs) == MultiplyFrom(identity, p, bs, Len(bs))

-----------------------------------------------------------------------------
\* The calls of the curve arithmetic. Each call draws its arguments; the
\* single-expression operations complete in one step, multiply runs its loop
\* one call of double or add at a time.

\* Every bit slice of at most MaxLen bits.
BitSlices == UNION {[1 .. n -> BOOLEAN] : n \in 0 .. MaxLen}

\* The scalar a bit slice stands for when bits[0] is the least significant bit.
RECURSIVE ScalarOf(_)
ScalarOf(bs) ==
    IF Len(bs) = 0 THEN 0
    ELSE (IF Head(bs) THEN 1 ELSE 0) + 2 * ScalarOf(Tail(bs))

\* The bit slice of a scalar, bits[0] the least significant bit.
RECURSIVE BitsOf(_)
BitsOf(k) ==
    IF k = 0 THEN <<>>
    ELSE <<k % 2 = 1>> \o BitsOf(k \div 2)

SetBits(bs) == Cardinality({n \in 1 .. Len(bs) : bs[n]})

OutcomeOf(r) == IF r.panic THEN "panic" ELSE "ok"

Idle == op = "none"

CallFromX ==
    /\ Idle
    /\ \E v \in FieldElement :
        /\ xin' = v
        /\ outcome' = OutcomeOf(from_x(v))
        /\ result' = from_x(v).val
    /\ op' = "from_x"
    /\ UNCHANGED <<self, other, bits, bits2, result2, pc, product, i, nDouble, nAdd>>
    /\ UNCHANGED <<classVars, accountVars>>

CallDouble ==
    /\ Idle
    /\ \E p \in Points :
        /\ self' = p
        /\ outcome' = OutcomeOf(double(p))
        /\ result' = double(p).val
    /\ op' = "double"
    /\ UNCHANGED <<other, xin, bits, bits2, result2, pc, product, i, nDouble, nAdd>>
    /\ UNCHANGED <<classVars, accountVars>>

CallAdd ==
    /\ Idle
    /\ \E p \in Points, q \in Points :
        /\ self' = p
        /\ other' = q
        /\ outcome' = OutcomeOf(add(p, q))
        /\ result' = add(p, q).val
    /\ op' = "add"
    /\ UNCHANGED <<xin, bits, bits2, result2, pc, product, i, nDouble, nAdd>>
    /\ UNCHANGED <<classVars, accountVars>>

CallSubtract ==
    /\ Idle
    /\ \E p \in Points, q \in Points :
        /\ self' = p
        /\ other' = q
        /\ outcome' = OutcomeOf(subtract(p, q))
        /\ result' = subtract(p, q).val
    /\ op' = "subtract"
    /\ UNCHANGED <<xin, bits, bits2, result2, pc, product, i, nDouble, nAdd>>
    /\ UNCHANGED <<classVars, accountVars>>

\* let mut product = AffinePoint::identity(); for b in bits.iter().rev()
CallMultiply ==
    /\ Idle
    /\ \E p \in Points, bs \in BitSlices :
        /\ self' = p
        /\ bits' = bs
        /\ i' = Len(bs)
    /\ op' = "multiply"
    /\ product' = identity
    /\ pc' = "loop"
    /\ UNCHANGED <<outcome, other, xin, bits2, result, result2, nDouble, nAdd>>
    /\ UNCHANGED <<classVars, accountVars>>

\* product = product.double();
MultiplyDouble ==
    /\ op = "multiply"
    /\ pc = "loop"
    /\ i > 0
    /\ nDouble' = nDouble + 1
    /\ LET r == double(product)
       IN  IF r.panic
           THEN /\ outcome' = "panic"
                /\ pc' = "aborted"
                /\ UNCHANGED product
           ELSE /\ product' = r.val
                /\ pc' = "bit"
                /\ UNCHANGED outcome
    /\ UNCHANGED <<op, self, other, xin, bits, bits2, result, result2, i, nAdd>>
    /\ UNCHANGED <<classVars, accountVars>>

\* if *b { product = product.add(self); }
MultiplyAdd ==
    /\ op = "multiply"
    /\ pc = "bit"
    /\ bits[i]
    /\ nAdd' = nAdd + 1
    /\ LET r == add(product, self)
       IN  IF r.panic
           THEN /\ outcome' = "panic"
                /\ pc' = "aborted"
                /\ UNCHANGED <<product, i>>
           ELSE /\ product' = r.val
                /\ pc' = "loop"
                /\ i' = i - 1
                /\ UNCHANGED outcome
    /\ UNCHANGED <<op, self, other, xin, bits, bits2, result, result2, nDouble>>
    /\ UNCHANGED <<classVars, accountVars>>

\* the bit is clear: the step ends after its doubling
MultiplySkip ==
    /\ op = "multiply"
    /\ pc = "bit"
    /\ ~bits[i]
    /\ pc' = "loop"
    /\ i' = i - 1
    /\ UNCHANGED <<op, outcome, self, other, xin, bits, bits2, result, result2,
                   product, nDouble, nAdd>>
    /\ UNCHANGED <<classVars, accountVars>>

\* the iterator is exhausted: multiply returns product
MultiplyReturn ==
    /\ op = "multiply"
    /\ pc = "loop"
    /\ i = 0
    /\ result' = product
    /\ outcome' = "ok"
    /\ pc' = "done"
    /\ UNCHANGED <<op, self, other, xin, bits, bits2, result2, product, i,
                   nDouble, nAdd>>
    /\ UNCHANGED <<classVars, accountVars>>

\* The two sides of multiply(p, k1 + k2) == add(multiply(p, k1), multiply(p, k2)).
SumOfProducts(p, bs1, bs2) ==
    LET a == multiply(p, bs1)
        b == multiply(p, bs2)
    IN  IF a.panic \/ b.panic THEN Panic ELSE add(a.val, b.val)

ProductOfSum(p, bs1, bs2) == multiply(p, BitsOf(ScalarOf(bs1) + ScalarOf(bs2)))

CallMultiplySum ==
    /\ Idle
    /\ \E p \in Points, k1 \in 0 .. MaxScalar, k2 \in 0 .. MaxScalar :
        LET lhs == ProductOfSum(p, BitsOf(k1), BitsOf(k2))
            rhs == SumOfProducts(p, BitsOf(k1), BitsOf(k2))
        IN  /\ self' = p
            /\ bits' = BitsOf(k1)
            /\ bits2' = BitsOf(k2)
            /\ result' = lhs.val
            /\ result2' = rhs.val
            /\ outcome' = IF lhs.panic \/ rhs.panic THEN "panic" ELSE "ok"
    /\ op' = "multiply_sum"
    /\ UNCHANGED <<other, xin, pc, product, i, nDouble, nAdd>>
    /\ UNCHANGED <<classVars, accountVars>>

-----------------------------------------------------------------------------
\* DeployedClass::deserialize_from_json_deployed_class. The input is either
\* bytes that are not a JSON object, or a JSON object in which each of the
\* five fields the decoder looks at is absent, present with content that the
\* class type rejects, or present with content it accepts.

FieldStates == {"absent", "malformed", "wellformed"}

FieldNames == {"entry_points_by_type", "abi", "sierra_program",
               "contract_class_version", "program"}

NotJson == [valid |-> FALSE, fields |-> [f \in FieldNames |-> "absent"]]

JsonInputs ==
    {NotJson} \cup {[valid |-> TRUE, fields |-> fs] : fs \in [FieldNames -> FieldStates]}

Present(j, f) == j.valid /\ j.fields[f] # "absent"

\* serde_json::from_slice::<BulkDeployedClassFields>(json): the two common
\* fields are required, the other three are Option.
BulkParses(j) ==
    /\ j.valid
    /\ j.fields["entry_points_by_type"] # "absent"
    /\ j.fields["abi"] # "absent"

ClassOk(class) == [outcome |-> "ok", class |-> class, error |-> "none"]

ClassErr(e) == [outcome |-> "err", class |-> "none", error |-> e]

ClassPanic == [outcome |-> "panic", class |-> "none", error |-> "none"]

\* The first of the listed fields whose content serde_json::from_str rejects.
FirstMalformed(j, order) ==
    LET bad == {n \in 1 .. Len(order) : j.fields[order[n]] = "malformed"}
    IN  IF bad = {} THEN "none"
        ELSE order[CHOOSE n \in bad : \A m \in bad : n <= m]

deserialize_from_json_deployed_class(j) ==
    IF ~BulkParses(j) THEN ClassPanic
    ELSE IF j.fields["program"] # "absent"
    THEN LET bad == FirstMalformed(j, <<"abi", "entry_points_by_type", "program">>)
         IN  IF bad # "none" THEN ClassErr(bad) ELSE ClassOk("LegacyClass")
    ELSE IF j.fields["sierra_program"] = "absent"
    THEN ClassErr("missing_field sierra_program")
    ELSE IF j.fields["sierra_program"] = "malformed"
    THEN ClassErr("sierra_program")
    ELSE IF j.fields["contract_class_version"] = "absent"
    THEN ClassErr("missing_field contract_class_version")
    ELSE LET bad == FirstMalformed(j, <<"contract_class_version",
                                        "entry_points_by_type", "abi">>)
         IN  IF bad # "none" THEN ClassErr(bad) ELSE ClassOk("SierraClass")

CallDeserialize ==
    /\ decoded.outcome = "none"
    /\ \E j \in JsonInputs :
        /\ json' = j
        /\ decoded' = deserialize_from_json_deployed_class(j)
    /\ UNCHANGED <<curveVars, accountVars>>

-----------------------------------------------------------------------------
\* Two execute(calls).send() invocations on one account, run concurrently
\* against one provider. The account keeps no nonce of its own: an invocation
\* leaves Built by a get_nonce round-trip, signs, and hands the transaction to
\* the provider, which accepts it only if it carries the account's current
\* nonce.

Invocations == {"first", "second"}

NoNonce == -1

NewInvocation == [state |-> "Idle", nonce |-> NoNonce, fetches |-> 0, seen |-> NoNonce]

\* Provider::get_nonce(address)
get_nonce == providerNonce

\* A provider that receives every transaction whatever its nonce.
AcceptsAny(n) == n \in Nat

\* Provider::add_transaction(signed_tx): whether a transaction carrying
\* nonce n is accepted.
Accepts(n) == n = providerNonce

\* account.execute(calls): the builder captures the calls; no network yet.
Execute(a) ==
    /\ inv[a].state = "Idle"
    /\ inv' = [inv EXCEPT ![a].state = "Built"]
    /\ UNCHANGED providerNonce
    /\ UNCHANGED <<curveVars, classVars>>

\* Built -> Prepared: a fresh get_nonce round-trip of this invocation.
Prepare(a) ==
    /\ inv[a].state = "Built"
    /\ inv' = [inv EXCEPT ![a] = [state |-> "Prepared",
                                  nonce |-> get_nonce,
                                  fetches |-> inv[a].fetches + 1,
                                  seen |-> providerNonce]]
    /\ UNCHANGED providerNonce
    /\ UNCHANGED <<curveVars, classVars>>

\* Prepared -> Signed: the signature binds the nonce.
Sign(a) ==
    /\ inv[a].state = "Prepared"
    /\ inv' = [inv EXCEPT ![a].state = "Signed"]
    /\ UNCHANGED providerNonce
    /\ UNCHANGED <<curveVars, classVars>>

\* Signed -> Sending: the signed transaction leaves for the provider and the
\* invocation suspends on the round-trip.
Send(a) ==
    /\ inv[a].state = "Signed"
    /\ inv' = [inv EXCEPT ![a].state = "Sending"]
    /\ UNCHANGED providerNonce
    /\ UNCHANGED <<curveVars, classVars>>

\* The provider handles the transaction: Sent, or its nonce error.
AddTransaction(a) ==
    /\ inv[a].state = "Sending"
    /\ IF Accepts(inv[a].nonce)
       THEN /\ inv' = [inv EXCEPT ![a].state = "Sent"]
            /\ providerNonce' = providerNonce + 1
       ELSE /\ inv' = [inv EXCEPT ![a].state = "NonceError"]
            /\ UNCHANGED providerNonce
    /\ UNCHANGED <<curveVars, classVars>>

-----------------------------------------------------------------------------
\* The specifications.

InitCurve ==
    /\ op = "none"
    /\ outcome = "none"
    /\ self = identity
    /\ other = identity
    /\ xin = ZERO
    /\ bits = <<>>
    /\ bits2 = <<>>
    /\ result = identity
    /\ result2 = identity
    /\ pc = "idle"
    /\ product = identity
    /\ i = 0
    /\ nDouble = 0
    /\ nAdd = 0

InitClass ==
    /\ json = NotJson
    /\ decoded = [outcome |-> "none", class |-> "none", error |-> "none"]

\* The account has some nonce at the provider; neither invocation has started.
InitAccount ==
    /\ providerNonce \in 0 .. MaxNonce
    /\ inv = [a \in Invocations |-> NewInvocation]

\* Before the curve and decoder calls the account is fresh.
Init ==
    /\ InitCurve
    /\ InitClass
    /\ providerNonce = ZERO
    /\ inv = [a \in Invocations |-> NewInvocation]

InitConcurrent ==
    /\ InitCurve
    /\ InitClass
    /\ InitAccount

NextCurve ==
    \/ CallFromX
    \/ CallDouble
    \/ CallAdd
    \/ CallSubtract
    \/ CallMultiply
    \/ MultiplyDouble
    \/ MultiplyAdd
    \/ MultiplySkip
    \/ MultiplyReturn
    \/ CallMultiplySum

NextClass == CallDeserialize

NextAccount ==
    \E a \in Invocations :
        \/ Execute(a)
        \/ Prepare(a)
        \/ Sign(a)
        \/ Send(a)
        \/ AddTransaction(a)

SpecCurve == Init /\ [][NextCurve]_vars

SpecClass == Init /\ [][NextClass]_vars

SpecAccount == InitConcurrent /\ [][NextAccount]_vars

-----------------------------------------------------------------------------
\* Properties.

Returned == outcome # "none"

\* C1: for every point p (identity() included), add(p, identity()) and
\* add(identity(), p) both return p itself, in all three fields.
C1_IdentityAbsorbed ==
    (op = "add" /\ Returned) =>
        /\ other = identity => (outcome = "ok" /\ result = self)
        /\ self = identity => (outcome = "ok" /\ result = other)

C1_Witness ==
    /\ op = "add"
    /\ self \in CurvePoints
    /\ other = identity
    /\ outcome = "ok"
    /\ result = self

\* C2: adding a curve point to its negation returns identity() and does not
\* fail on the zero divisor, so subtract(p, p) is identity() for every p.
C2_NegationGivesIdentity ==
    /\ (op = "add" /\ self \in CurvePoints /\ other = Negated(self)) =>
            (outcome = "ok" /\ result = identity)
    /\ (op = "subtract" /\ other = self) =>
            (outcome = "ok" /\ result = identity)

\* C3: add(p, p) of a curve point p is routed to doubling and returns
\* double(p); the chord formula is not evaluated on equal x-coordinates.
C3_EqualOperandsDoubled ==
    (op = "add" /\ self \in CurvePoints /\ other = self) =>
        (outcome = "ok" /\ result = double(self).val)

\* C4: multiply(p, bits(k1 + k2)) equals
\* add(multiply(p, bits(k1)), multiply(p, bits(k2))) for all small k1, k2,
\* k1 = k2 and zero scalars included.
C4_Homomorphism ==
    op = "multiply_sum" => (outcome = "ok" /\ result = result2)

\* C5: from_x of an x whose x^3 + ALPHA*x + BETA is a non-residue, and double
\* of a non-identity point whose 2*y is zero, return an error value; neither
\* operation ever crashes.
C5_ArithmeticErrorsReturned ==
    /\ (op = "from_x" /\ ~IsResidue(CurveRhs(xin))) => outcome = "err"
    /\ (op = "double" /\ ~self.infinity /\ FMul(FAdd(ONE, ONE), self.y) = ZERO) =>
            outcome = "err"
    /\ op \in {"from_x", "double"} => outcome # "panic"

Decoded == decoded.outcome # "none"

\* No field of the object carries content that its class type rejects.
WellFormedContents(j) == \A f \in FieldNames : j.fields[f] # "malformed"

\* C6: on a JSON object (whose fields, where present, carry decodable
\* content) the decoder's result is fixed by field presence alone:
\* LegacyClass whenever `program` is present, Sierra fields or not;
\* SierraClass when `program` is absent and both Sierra fields are present;
\* an Err, never a class, when `program` is absent and a Sierra field is
\* missing.
C6_DiscriminatedByPresence ==
    (Decoded /\ json.valid /\ WellFormedContents(json)) =>
        /\ Present(json, "program") => decoded.class = "LegacyClass"
        /\ (/\ ~Present(json, "program")
            /\ Present(json, "sierra_program")
            /\ Present(json, "contract_class_version")) =>
                decoded.class = "SierraClass"
        /\ (/\ ~Present(json, "program")
            /\ \/ ~Present(json, "sierra_program")
               \/ ~Present(json, "contract_class_version")) =>
                decoded.outcome = "err"

Terminal(a) == inv[a].state \in {"Sent", "NonceError"}

Fetched(a) == inv[a].state \notin {"Idle", "Built"}

MultiplyEnded == op = "multiply" /\ pc \in {"done", "aborted"}

\* C8: every call of multiply makes exactly Len(bits) calls of double and as
\* many calls of add as bits are set, whatever the bits are.
C8_LoopRunsEveryBit ==
    MultiplyEnded => (nDouble = Len(bits) /\ nAdd = SetBits(bits))

\* C9: bytes that are not JSON, and JSON without `abi` or without
\* `entry_points_by_type`, make the decoder return an Err; it never panics.
C9_MalformedJsonIsErr ==
    Decoded =>
        /\ ~BulkParses(json) => decoded.outcome = "err"
        /\ decoded.outcome # "panic"

\* The group law of the curve: chord, tangent on equal points, identity() on
\* opposite points.
GroupSum(p, q) ==
    IF p.infinity THEN q
    ELSE IF q.infinity THEN p
    ELSE IF p.x # q.x THEN add(p, q).val
    ELSE IF p.y = q.y /\ p.y # ZERO THEN double(p).val
    ELSE identity

\* p + p + ... + p, k times.
RECURSIVE GroupMultiple(_, _)
GroupMultiple(p, k) ==
    IF k = 0 THEN identity ELSE GroupSum(GroupMultiple(p, k - 1), p)

\* C10: multiply(p, bits) returns the k-fold sum of p, k being the scalar
\* whose least significant bit is bits[0].
C10_LittleEndianScalar ==
    MultiplyEnded =>
        (outcome = "ok" /\ result = GroupMultiple(self, ScalarOf(bits)))

-----------------------------------------------------------------------------
\* What the code does keep on the calls that do not panic.

\* A multiply that returns made Len(bits) doublings and one add per set bit.
ReturningMultiplyRunsEveryBit ==
    (op = "multiply" /\ pc = "done") =>
        (nDouble = Len(bits) /\ nAdd = SetBits(bits))

\* A multiply that returns returns the multiple of the little-endian scalar.
ReturningMultiplyIsMultiple ==
    (op = "multiply" /\ pc = "done") =>
        result = GroupMultiple(self, ScalarOf(bits))

\* When neither side of the homomorphism test panics the sides agree.
ReturningSidesAgree ==
    (op = "multiply_sum" /\ outcome = "ok") => result = result2

\* A class is returned exactly as field presence says, provided the decoder
\* gets past its first parse and every present field is decodable.
PresenceDecidesPastFirstParse ==
    (Decoded /\ BulkParses(json) /\ WellFormedContents(json)) =>
        /\ decoded.outcome # "panic"
        /\ decoded.class = "LegacyClass" <=> Present(json, "program")
        /\ decoded.class = "SierraClass" <=>
            /\ ~Present(json, "program")
            /\ Present(json, "sierra_program")
            /\ Present(json, "contract_class_version")
        /\ decoded.outcome = "err" <=> decoded.class = "none"

====
